---- MODULE Spec2Model ----
(***************************************************************************)
(* Office-Flow attendance: the day-status derivation of Attendance.save()  *)
(* and the supervisor -> HR approval workflow of                            *)
(* AttendanceApprovalRequest, with the admin operations that write the     *)
(* same rows.  Every handler is one atomic step (requests are served one   *)
(* at a time); each step reloads the rows it touches from the database.    *)
(***************************************************************************)
EXTENDS Integers, Sequences, FiniteSets, TLC

(* ------------------------------ bounds -------------------------------- *)
MaxRecords == 1
MaxRequests == 1
MaxSettings == 2
MaxGatedRequests == 2
BulkRecords == 2
MaxNow == 3

(* --------------------------- value domains ---------------------------- *)
\* A null TimeField / DateTimeField (times are minutes after midnight,
\* review timestamps are readings of the clock, both never negative).
Null == -1
\* A null hours_worked (the field holds hundredths of an hour, 4 digits).
NullHours == -100000
\* A null ForeignKey to CustomUser, and notes=None.
NoUser == "None"
NoNotes == "None"

EMPLOYEE_STATUS_CHOICES == {"ACTIVE", "ON_LEAVE", "SUSPENDED", "TERMINATED", "RESIGNED"}
DAY_STATUS_CHOICES == {"PRESENT", "ABSENT", "ON_LEAVE", "WEEKEND", "HOLIDAY", "SUSPENDED"}
REQUEST_STATUS_CHOICES == {"PENDING", "SUPERVISOR_APPROVED", "HR_APPROVED", "REJECTED"}

\* datetime.time(9, 0): the deadline used when no settings row is active.
DefaultWorkStart == 540

\* The people of the model: the requesting employee, the supervisor of the
\* employee's unit, an HR admin and a superuser.
Users == {"emp", "sup", "hr", "root"}
approval_level(u) ==
    CASE u = "emp" -> "STAFF"
      [] u = "sup" -> "SUPERVISOR"
      [] u = "hr" -> "HR_ADMIN"
      [] u = "root" -> "DIRECTOR"
is_superuser(u) == u = "root"
\* Unit.supervisor of the employee's unit.
unit_supervisor == "sup"
\* The employee whose attendance rows the model holds.
Employee == "emp"
\* The units, and a null Unit foreign key.
Units == {"u1", "u2"}
NoUnit == "None"
\* obj=None: a permission asked for no particular request.
NoObj == 0
\* Nothing returned yet.
NoReturn == [op |-> "none"]
\* The request workers, and a worker that serves nothing.
Procs == {1, 2}
Idle == [pc |-> "idle", op |-> "none", q |-> 0, a |-> 0, user |-> NoUser,
         notes |-> NoNotes, ci |-> Null, co |-> Null, req |-> <<>>, att |-> <<>>,
         outcome |-> ""]

\* A date is its day number (proleptic ordinal - 1), so that
\* date.weekday() is the day number modulo 7: 4 is a Friday, 5 a Saturday,
\* 6 a Sunday.
weekday(d) == d % 7

(* ------------------------------- state -------------------------------- *)
VARIABLES
    employee_status,  \* CustomUser.employee_status of the employee
    holidays,         \* Holiday rows by their (unique) date: "none", "active", "inactive"
    settings,         \* AttendanceSettings rows, in primary-key order
    attendance,       \* Attendance rows of the employee, index = primary key
    requests,         \* AttendanceApprovalRequest rows, index = primary key
    now,              \* the clock read by timezone.now()
    error,            \* the class of the exception the last call raised ("" if none)
    unit,             \* CustomUser.unit of every user (NoUnit when null)
    unit_supervised,  \* user.unit_supervised: the unit whose Unit.supervisor the user is
    returned,         \* the value the last query returned
    procs             \* the requests being served: position, in-memory instances

vars == <<employee_status, holidays, settings, attendance, requests, now, error,
          unit, unit_supervised, returned, procs>>

\* What the operations on attendance, requests, calendar and policy leave alone.
aux == <<unit, unit_supervised, returned, procs>>

(* ------------------------ the status engine --------------------------- *)
\* AttendanceSettings.get_active_settings(): the first active row, or none.
ActiveRows == {i \in DOMAIN settings : settings[i].is_active}
HasActiveSettings == ActiveRows # {}
get_active_settings ==
    settings[CHOOSE i \in ActiveRows : \A j \in ActiveRows : i <= j]

\* The holiday lookup without the is_active filter.
IsActiveHoliday_AnyRow(d) == d \in DOMAIN holidays /\ holidays[d] # "none"

\* Holiday.objects.filter(date=d, is_active=True).exists()
IsActiveHoliday(d) == d \in DOMAIN holidays /\ holidays[d] = "active"

\* The deadline taken from the first settings row, active or not.
work_start_AnyRow == IF settings = <<>> THEN DefaultWorkStart
                     ELSE settings[1].work_start_time

\* work_start as save() picks it.
work_start == IF ~HasActiveSettings THEN DefaultWorkStart
              ELSE get_active_settings.work_start_time

\* The clock-in rule with a clock-in at the deadline itself counted late.
ClockInStatus_StrictlyBefore(inst) ==
    IF inst.clock_in_time # Null /\ inst.clock_in_time < work_start
    THEN "PRESENT" ELSE "ABSENT"

\* The clock-in rule, the last step of the cascade.
ClockInStatus(inst) ==
    IF inst.clock_in_time # Null
    THEN IF inst.clock_in_time <= work_start
         THEN IF inst.clock_out_time # Null THEN "PRESENT" ELSE "PRESENT"
         ELSE "ABSENT"
    ELSE "ABSENT"

\* The cascade with the weekend test ahead of the employee's status.
DeriveDayStatus_WeekendFirst(inst) ==
    IF weekday(inst.date) \in {5, 6} THEN "WEEKEND"
    ELSE IF employee_status = "SUSPENDED" THEN "SUSPENDED"
    ELSE IF employee_status = "ON_LEAVE" THEN "ON_LEAVE"
    ELSE IF IsActiveHoliday(inst.date) THEN "HOLIDAY"
    ELSE ClockInStatus(inst)

\* The cascade with ON_LEAVE tested after the calendar.
DeriveDayStatus_LeaveAfterCalendar(inst) ==
    IF employee_status = "SUSPENDED" THEN "SUSPENDED"
    ELSE IF weekday(inst.date) \in {5, 6} THEN "WEEKEND"
    ELSE IF IsActiveHoliday(inst.date) THEN "HOLIDAY"
    ELSE IF employee_status = "ON_LEAVE" THEN "ON_LEAVE"
    ELSE ClockInStatus(inst)

\* The cascade with the holiday test ahead of the weekend test.
DeriveDayStatus_HolidayFirst(inst) ==
    IF employee_status = "SUSPENDED" THEN "SUSPENDED"
    ELSE IF employee_status = "ON_LEAVE" THEN "ON_LEAVE"
    ELSE IF IsActiveHoliday(inst.date) THEN "HOLIDAY"
    ELSE IF weekday(inst.date) \in {5, 6} THEN "WEEKEND"
    ELSE ClockInStatus(inst)

\* The cascade with a departed employee treated as suspended.
DeriveDayStatus_DepartedSuspended(inst) ==
    IF employee_status \in {"SUSPENDED", "TERMINATED", "RESIGNED"} THEN "SUSPENDED"
    ELSE IF employee_status = "ON_LEAVE" THEN "ON_LEAVE"
    ELSE IF weekday(inst.date) \in {5, 6} THEN "WEEKEND"
    ELSE IF IsActiveHoliday(inst.date) THEN "HOLIDAY"
    ELSE ClockInStatus(inst)

\* The status cascade of Attendance.save(), on an in-memory instance.
DeriveDayStatus(inst) ==
    IF employee_status = "SUSPENDED" THEN "SUSPENDED"
    ELSE IF employee_status = "ON_LEAVE" THEN "ON_LEAVE"
    ELSE IF weekday(inst.date) \in {5, 6} THEN "WEEKEND"
    ELSE IF IsActiveHoliday(inst.date) THEN "HOLIDAY"
    ELSE ClockInStatus(inst)

\* The hours cut to two decimals instead of rounded.
RoundHours_Truncate(m) ==
    IF m >= 0 THEN (10 * m) \div 6 ELSE -((10 * (-m)) \div 6)

\* round(time_diff.total_seconds() / 3600, 2), in hundredths of an hour.
\* The difference is a whole number of minutes m, so 100*m/60 = 5m/3 is
\* never half-way between two integers and the rounding mode is immaterial.
RoundHours(m) ==
    IF m >= 0 THEN (10 * m + 3) \div 6 ELSE -((10 * (-m) + 3) \div 6)

\* The hours of this save added to the hours already on the instance.
DeriveHoursWorked_Accumulate(inst) ==
    IF inst.clock_in_time # Null /\ inst.clock_out_time # Null
    THEN (IF inst.hours_worked = NullHours THEN 0 ELSE inst.hours_worked)
            + RoundHours(inst.clock_out_time - inst.clock_in_time)
    ELSE inst.hours_worked

\* The hours_worked that save() leaves on the instance.
DeriveHoursWorked(inst) ==
    IF inst.clock_in_time # Null /\ inst.clock_out_time # Null
    THEN RoundHours(inst.clock_out_time - inst.clock_in_time)
    ELSE inst.hours_worked

\* Attendance.save(): the row written for the in-memory instance inst.
Attendance_save(inst) ==
    [inst EXCEPT !.employeeDayStatus = DeriveDayStatus(inst),
                 !.hours_worked = DeriveHoursWorked(inst)]

\* Attendance.clean(): TRUE when it raises ValidationError
\* ("Clock-out time must be after clock-in time").
Attendance_clean(inst) ==
    /\ inst.clock_in_time # Null /\ inst.clock_out_time # Null
    /\ inst.clock_out_time <= inst.clock_in_time

\* Attendance.can_request_approval()
can_request_approval(a) ==
    /\ attendance[a].employeeDayStatus = "ABSENT"
    /\ ~attendance[a].has_pending_approval_request

(* ------------------------------ inputs -------------------------------- *)
\* Inputs of the calls of the workflow specification: one working day
\* (a Friday), no clock-in or a clock-in one minute after the default
\* deadline, a policy row that moves the deadline to that minute; the
\* employee is active until a suspension is recorded.
Dates == {4}
ClockIns == {Null, 541}
ClockOuts == {Null, 1020}
AssignedStatuses == {"PRESENT", "ABSENT"}
WorkStarts == {541}
EmployeeStatuses == {"ACTIVE"}
Reviewers == {"sup", "hr"}
Notes == {NoNotes, "seen"}

(* ------------------------------ Init ---------------------------------- *)
\* The organisation of the workflow: the employee works in unit u1, which
\* unit_supervisor supervises.
InitOrg ==
    /\ unit = [u \in Users |-> IF u = Employee THEN "u1" ELSE NoUnit]
    /\ unit_supervised = [u \in Users |-> IF u = unit_supervisor THEN "u1" ELSE NoUnit]
    /\ returned = NoReturn
    /\ procs = [p \in Procs |-> Idle]

Init ==
    /\ InitOrg
    /\ employee_status = "ACTIVE"
    /\ holidays = [d \in Dates |-> "none"]
    /\ settings = <<>>
    /\ attendance = <<>>
    /\ requests = <<>>
    /\ now = 0
    /\ error = ""

(* ----------------------- attendance operations ------------------------ *)
\* Attendance(employee, date, ...).save() of a new row; (employee, date) is
\* unique.  st is the status the caller assigned, fl the flag it assigned.
Attendance_create(d, ci, co, st, fl) ==
    /\ Len(attendance) < MaxRecords
    /\ \A a \in DOMAIN attendance : attendance[a].date # d
    /\ attendance' = Append(attendance,
           Attendance_save([date |-> d, clock_in_time |-> ci, clock_out_time |-> co,
                            employeeDayStatus |-> st, hours_worked |-> NullHours,
                            has_pending_approval_request |-> fl]))
    /\ error' = ""
    /\ UNCHANGED <<employee_status, holidays, settings, requests, now>>
    /\ UNCHANGED aux

\* An existing row loaded, its editable fields assigned, and saved.
Attendance_update(a, ci, co, st, fl) ==
    /\ a \in DOMAIN attendance
    /\ attendance' = [attendance EXCEPT ![a] =
           Attendance_save([@ EXCEPT !.clock_in_time = ci, !.clock_out_time = co,
                                     !.employeeDayStatus = st,
                                     !.has_pending_approval_request = fl])]
    /\ error' = ""
    /\ UNCHANGED <<employee_status, holidays, settings, requests, now>>
    /\ UNCHANGED aux

\* AttendanceAdmin add form: the form runs full_clean(), hence clean(), and
\* saves only a valid instance; hours_worked is a read-only field.
AttendanceAdmin_add(d, ci, co, st, fl) ==
    /\ Len(attendance) < MaxRecords
    /\ \A a \in DOMAIN attendance : attendance[a].date # d
    /\ LET inst == [date |-> d, clock_in_time |-> ci, clock_out_time |-> co,
                    employeeDayStatus |-> st, hours_worked |-> NullHours,
                    has_pending_approval_request |-> fl]
       IN IF Attendance_clean(inst)
          THEN error' = "ValidationError" /\ UNCHANGED attendance
          ELSE error' = "" /\ attendance' = Append(attendance, Attendance_save(inst))
    /\ UNCHANGED <<employee_status, holidays, settings, requests, now>>
    /\ UNCHANGED aux

\* AttendanceAdmin change form of an existing row.
AttendanceAdmin_change(a, ci, co, st, fl) ==
    /\ a \in DOMAIN attendance
    /\ LET inst == [attendance[a] EXCEPT !.clock_in_time = ci, !.clock_out_time = co,
                                         !.employeeDayStatus = st,
                                         !.has_pending_approval_request = fl]
       IN IF Attendance_clean(inst)
          THEN error' = "ValidationError" /\ UNCHANGED attendance
          ELSE error' = "" /\ attendance' = [attendance EXCEPT ![a] = Attendance_save(inst)]
    /\ UNCHANGED <<employee_status, holidays, settings, requests, now>>
    /\ UNCHANGED aux

\* mark_as_present updating the whole table instead of the selection.
mark_as_present_WholeTable(user, S) ==
    /\ S # {} /\ S \subseteq DOMAIN attendance
    /\ IF ~is_superuser(user) /\ approval_level(user) # "HR_ADMIN"
       THEN UNCHANGED attendance
       ELSE attendance' = [a \in DOMAIN attendance |->
                [attendance[a] EXCEPT !.employeeDayStatus = "PRESENT"]]
    /\ error' = ""
    /\ UNCHANGED <<employee_status, holidays, settings, requests, now>>
    /\ UNCHANGED aux

\* AttendanceAdmin.mark_as_present: queryset.update() on the selected rows,
\* which does not go through Attendance.save().
mark_as_present(user, S) ==
    /\ S # {} /\ S \subseteq DOMAIN attendance
    /\ IF ~is_superuser(user) /\ approval_level(user) # "HR_ADMIN"
       THEN UNCHANGED attendance
       ELSE attendance' = [a \in DOMAIN attendance |->
                IF a \in S THEN [attendance[a] EXCEPT !.employeeDayStatus = "PRESENT"]
                ELSE attendance[a]]
    /\ error' = ""
    /\ UNCHANGED <<employee_status, holidays, settings, requests, now>>
    /\ UNCHANGED aux

(* ------------------------ approval workflow --------------------------- *)
\* AttendanceApprovalRequest(attendance=a, employee, reason).save(): the
\* status field defaults to PENDING and the review fields to null.
AttendanceApprovalRequest_create(e, a) ==
    /\ Len(requests) < MaxRequests
    /\ a \in DOMAIN attendance
    /\ requests' = Append(requests,
           [attendance |-> a, employee |-> e, status |-> "PENDING",
            supervisor_reviewed_by |-> NoUser, supervisor_review_notes |-> NoNotes,
            supervisor_reviewed_at |-> Null,
            hr_reviewed_by |-> NoUser, hr_review_notes |-> NoNotes,
            hr_reviewed_at |-> Null])
    /\ error' = ""
    /\ UNCHANGED <<employee_status, holidays, settings, attendance, now>>
    /\ UNCHANGED aux

\* A caller that asks attendance.can_request_approval() first and creates
\* the request only when it answers True.
create_if_can_request_approval(a) ==
    /\ Len(requests) < MaxGatedRequests
    /\ a \in DOMAIN attendance
    /\ can_request_approval(a)
    /\ requests' = Append(requests,
           [attendance |-> a, employee |-> Employee, status |-> "PENDING",
            supervisor_reviewed_by |-> NoUser, supervisor_review_notes |-> NoNotes,
            supervisor_reviewed_at |-> Null,
            hr_reviewed_by |-> NoUser, hr_review_notes |-> NoNotes,
            hr_reviewed_at |-> Null])
    /\ error' = ""
    /\ UNCHANGED <<employee_status, holidays, settings, attendance, now>>
    /\ UNCHANGED aux

\* The supervisor's review stamped on the HR fields as well.
SupervisorReviewed_AlsoHrFields(q, newStatus, supervisor, notes) ==
    [requests EXCEPT ![q] = [@ EXCEPT !.status = newStatus,
                                      !.supervisor_reviewed_by = supervisor,
                                      !.supervisor_review_notes = notes,
                                      !.supervisor_reviewed_at = now,
                                      !.hr_reviewed_at = now]]

\* The row a review method leaves in the database for the supervisor tier.
SupervisorReviewed(q, newStatus, supervisor, notes) ==
    [requests EXCEPT ![q] = [@ EXCEPT !.status = newStatus,
                                      !.supervisor_reviewed_by = supervisor,
                                      !.supervisor_review_notes = notes,
                                      !.supervisor_reviewed_at = now]]

\* The same for the HR tier.
HrReviewed(q, newStatus, hr_user, notes) ==
    [requests EXCEPT ![q] = [@ EXCEPT !.status = newStatus,
                                      !.hr_reviewed_by = hr_user,
                                      !.hr_review_notes = notes,
                                      !.hr_reviewed_at = now]]

\* The rejection saving the linked row without resetting its flag.
ClearPendingAndSave_KeepsFlag(a) ==
    [attendance EXCEPT ![a] = Attendance_save(@)]

\* self.attendance.has_pending_approval_request = False; self.attendance.save()
ClearPendingAndSave(a) ==
    [attendance EXCEPT ![a] =
        Attendance_save([@ EXCEPT !.has_pending_approval_request = FALSE])]

\* hr_approve writing PRESENT straight to the row, without the re-derivation
\* of save().
MarkPresentAndSave_NoRederive(a) ==
    [attendance EXCEPT ![a] = [@ EXCEPT !.employeeDayStatus = "PRESENT",
                                        !.has_pending_approval_request = FALSE]]

\* self.attendance.employeeDayStatus = 'PRESENT'; ... = False; self.attendance.save()
MarkPresentAndSave(a) ==
    [attendance EXCEPT ![a] =
        Attendance_save([@ EXCEPT !.employeeDayStatus = "PRESENT",
                                  !.has_pending_approval_request = FALSE])]

\* The supervisor guard written against the terminal REJECTED state only.
NotPending_OnlyRejected(q) == requests[q].status = "REJECTED"

\* self.status != 'PENDING': the guard of the two supervisor methods.
NotPending(q) == requests[q].status # "PENDING"

\* The HR guard written as "not still pending".
NotSupervisorApproved_OnlyPending(q) == requests[q].status = "PENDING"

\* self.status != 'SUPERVISOR_APPROVED': the guard of the two HR methods.
NotSupervisorApproved(q) == requests[q].status # "SUPERVISOR_APPROVED"

supervisor_approve(q, supervisor, notes) ==
    /\ q \in DOMAIN requests
    /\ IF NotPending(q)
       THEN /\ error' = "ValidationError"  \* "Can only approve pending requests"
            /\ UNCHANGED <<requests, attendance, now>>
       ELSE /\ requests' = SupervisorReviewed(q, "SUPERVISOR_APPROVED", supervisor, notes)
            /\ now' = now + 1
            /\ error' = ""
            /\ UNCHANGED attendance
    /\ UNCHANGED <<employee_status, holidays, settings>>
    /\ UNCHANGED aux

supervisor_reject(q, supervisor, notes) ==
    /\ q \in DOMAIN requests
    /\ IF NotPending(q)
       THEN /\ error' = "ValidationError"  \* "Can only reject pending requests"
            /\ UNCHANGED <<requests, attendance, now>>
       ELSE /\ requests' = SupervisorReviewed(q, "REJECTED", supervisor, notes)
            /\ attendance' = ClearPendingAndSave(requests[q].attendance)
            /\ now' = now + 1
            /\ error' = ""
    /\ UNCHANGED <<employee_status, holidays, settings>>
    /\ UNCHANGED aux

hr_approve(q, hr_user, notes) ==
    /\ q \in DOMAIN requests
    /\ IF NotSupervisorApproved(q)
       THEN /\ error' = "ValidationError"  \* "Can only approve supervisor-approved requests"
            /\ UNCHANGED <<requests, attendance, now>>
       ELSE /\ requests' = HrReviewed(q, "HR_APPROVED", hr_user, notes)
            /\ attendance' = MarkPresentAndSave(requests[q].attendance)
            /\ now' = now + 1
            /\ error' = ""
    /\ UNCHANGED <<employee_status, holidays, settings>>
    /\ UNCHANGED aux

hr_reject(q, hr_user, notes) ==
    /\ q \in DOMAIN requests
    /\ IF NotSupervisorApproved(q)
       THEN /\ error' = "ValidationError"  \* "Can only reject supervisor-approved requests"
            /\ UNCHANGED <<requests, attendance, now>>
       ELSE /\ requests' = HrReviewed(q, "REJECTED", hr_user, notes)
            /\ attendance' = ClearPendingAndSave(requests[q].attendance)
            /\ now' = now + 1
            /\ error' = ""
    /\ UNCHANGED <<employee_status, holidays, settings>>
    /\ UNCHANGED aux

\* Unit.supervisor of unit u: the user whose unit_supervised is u, if any.
Unit_supervisor(u) ==
    IF \E s \in Users : unit_supervised[s] = u
    THEN CHOOSE s \in Users : unit_supervised[s] = u
    ELSE NoUser

\* AttendanceApprovalRequest.get_supervisor
get_supervisor(q) ==
    LET u == unit[requests[q].employee]
    IN IF u # NoUnit /\ Unit_supervisor(u) # NoUser THEN Unit_supervisor(u) ELSE NoUser

\* The supervisor check made on the user's approval level.
can_user_review_as_supervisor_ByLevel(q, user) == approval_level(user) = "SUPERVISOR"

\* AttendanceApprovalRequest.can_user_review_as_supervisor: the truth value
\* of "supervisor and supervisor == user".
can_user_review_as_supervisor(q, user) ==
    get_supervisor(q) # NoUser /\ get_supervisor(q) = user

\* AttendanceApprovalRequest.can_user_review_as_hr
can_user_review_as_hr(q, user) == approval_level(user) = "HR_ADMIN"

(* ---------------- the same calls, served by two workers --------------- *)
\* A view serving a call loads the rows into memory, lets the method work on
\* the in-memory instances, and each save() writes every column of its
\* instance back.  No call runs in a transaction or locks a row.
ReviewOps == {"supervisor_approve", "supervisor_reject", "hr_approve", "hr_reject"}
SupervisorOps == {"supervisor_approve", "supervisor_reject"}

\* The positions at which a worker has not written anything yet.
BeforeWrite == {"idle", "loaded", "clock_loaded", "checked"}

\* AttendanceApprovalRequest.objects.get(pk=q), with select_related('attendance')
\* (eager) or without: the attendance row is then read at its first use.
load_request(p, op, q, user, notes, eager) ==
    /\ procs[p].pc = "idle"
    /\ op \in ReviewOps
    /\ q \in DOMAIN requests
    /\ procs' = [procs EXCEPT ![p] =
           [Idle EXCEPT !.pc = "loaded", !.op = op, !.q = q, !.a = requests[q].attendance,
                        !.user = user, !.notes = notes, !.req = <<requests[q]>>,
                        !.att = IF eager THEN <<attendance[requests[q].attendance]>>
                                ELSE <<>>]]
    /\ UNCHANGED <<employee_status, holidays, settings, attendance, requests, now, error>>
    /\ UNCHANGED <<unit, unit_supervised, returned>>

\* The in-memory request after the assignments of the review method op.
Reviewed(inst, op, user, notes) ==
    IF op \in SupervisorOps
    THEN [inst EXCEPT !.status = IF op = "supervisor_approve" THEN "SUPERVISOR_APPROVED"
                                 ELSE "REJECTED",
                      !.supervisor_reviewed_by = user,
                      !.supervisor_review_notes = notes,
                      !.supervisor_reviewed_at = now]
    ELSE [inst EXCEPT !.status = IF op = "hr_approve" THEN "HR_APPROVED" ELSE "REJECTED",
                      !.hr_reviewed_by = user,
                      !.hr_review_notes = notes,
                      !.hr_reviewed_at = now]

\* The guard of the review method op, on the in-memory request.
WrongState(inst, op) ==
    IF op \in SupervisorOps THEN inst.status # "PENDING"
    ELSE inst.status # "SUPERVISOR_APPROVED"

\* The first half of a review method: the guard, the assignments, self.save().
review_save(p) ==
    /\ procs[p].pc = "loaded"
    /\ LET w == procs[p]
       IN IF WrongState(w.req[1], w.op)
          THEN /\ procs' = [procs EXCEPT ![p].pc = "done", ![p].outcome = "ValidationError"]
               /\ UNCHANGED <<requests, now>>
          ELSE /\ requests' = [requests EXCEPT ![w.q] = Reviewed(w.req[1], w.op, w.user, w.notes)]
               /\ now' = now + 1
               /\ procs' = [procs EXCEPT
                      ![p].pc = IF w.op = "supervisor_approve" THEN "done"
                                ELSE IF w.att = <<>> THEN "saved" ELSE "att_loaded",
                      ![p].outcome = IF w.op = "supervisor_approve" THEN "ok" ELSE "",
                      ![p].req = <<Reviewed(w.req[1], w.op, w.user, w.notes)>>]
    /\ UNCHANGED <<employee_status, holidays, settings, attendance, error>>
    /\ UNCHANGED <<unit, unit_supervised, returned>>

\* self.attendance, read from the database at its first use.
load_attendance(p) ==
    /\ procs[p].pc = "saved"
    /\ procs' = [procs EXCEPT ![p].pc = "att_loaded",
                              ![p].att = <<attendance[procs[p].a]>>]
    /\ UNCHANGED <<employee_status, holidays, settings, attendance, requests, now, error>>
    /\ UNCHANGED <<unit, unit_supervised, returned>>

\* The second half of supervisor_reject, hr_approve and hr_reject: the
\* assignments to self.attendance and self.attendance.save().
save_attendance(p) ==
    /\ procs[p].pc = "att_loaded"
    /\ LET w == procs[p]
           inst == IF w.op = "hr_approve"
                   THEN [w.att[1] EXCEPT !.employeeDayStatus = "PRESENT",
                                         !.has_pending_approval_request = FALSE]
                   ELSE [w.att[1] EXCEPT !.has_pending_approval_request = FALSE]
       IN /\ attendance' = [attendance EXCEPT ![w.a] = Attendance_save(inst)]
          /\ procs' = [procs EXCEPT ![p].pc = "done", ![p].outcome = "ok",
                                    ![p].att = <<Attendance_save(inst)>>]
    /\ UNCHANGED <<employee_status, holidays, settings, requests, now, error>>
    /\ UNCHANGED <<unit, unit_supervised, returned>>

\* A clock-in / clock-out: Attendance.objects.get(pk=a) ...
load_for_clock(p, a, ci, co) ==
    /\ procs[p].pc = "idle"
    /\ a \in DOMAIN attendance
    /\ procs' = [procs EXCEPT ![p] =
           [Idle EXCEPT !.pc = "clock_loaded", !.op = "clock", !.a = a,
                        !.ci = ci, !.co = co, !.att = <<attendance[a]>>]]
    /\ UNCHANGED <<employee_status, holidays, settings, attendance, requests, now, error>>
    /\ UNCHANGED <<unit, unit_supervised, returned>>

\* ... the clock times assigned, and save().
save_clock(p) ==
    /\ procs[p].pc = "clock_loaded"
    /\ LET w == procs[p]
           inst == [w.att[1] EXCEPT !.clock_in_time = w.ci, !.clock_out_time = w.co]
       IN /\ attendance' = [attendance EXCEPT ![w.a] = Attendance_save(inst)]
          /\ procs' = [procs EXCEPT ![p].pc = "done", ![p].outcome = "ok",
                                    ![p].att = <<Attendance_save(inst)>>]
    /\ UNCHANGED <<employee_status, holidays, settings, requests, now, error>>
    /\ UNCHANGED <<unit, unit_supervised, returned>>

\* A request being filed: the row is loaded and can_request_approval() asked ...
check_can_request_approval(p, a) ==
    /\ procs[p].pc = "idle"
    /\ a \in DOMAIN attendance
    /\ LET ok == can_request_approval(a)
       IN procs' = [procs EXCEPT ![p] =
              [Idle EXCEPT !.pc = IF ok THEN "checked" ELSE "done", !.op = "create",
                           !.a = a, !.user = Employee, !.att = <<attendance[a]>>,
                           !.outcome = IF ok THEN "" ELSE "refused"]]
    /\ UNCHANGED <<employee_status, holidays, settings, attendance, requests, now, error>>
    /\ UNCHANGED <<unit, unit_supervised, returned>>

\* ... and, as it answered True, the request row inserted.
insert_request(p) ==
    /\ procs[p].pc = "checked"
    /\ Len(requests) < MaxGatedRequests
    /\ requests' = Append(requests,
           [attendance |-> procs[p].a, employee |-> procs[p].user, status |-> "PENDING",
            supervisor_reviewed_by |-> NoUser, supervisor_review_notes |-> NoNotes,
            supervisor_reviewed_at |-> Null,
            hr_reviewed_by |-> NoUser, hr_review_notes |-> NoNotes,
            hr_reviewed_at |-> Null])
    /\ procs' = [procs EXCEPT ![p].pc = "done", ![p].outcome = "created"]
    /\ UNCHANGED <<employee_status, holidays, settings, attendance, now, error>>
    /\ UNCHANGED <<unit, unit_supervised, returned>>

(* ------------------------------ queries ------------------------------- *)
\* The queryset with the supervisor shown every PENDING request.
get_queryset_AllPending(user) ==
    IF is_superuser(user) \/ approval_level(user) = "HR_ADMIN"
    THEN DOMAIN requests
    ELSE IF approval_level(user) = "SUPERVISOR" /\ unit_supervised[user] # NoUnit
    THEN {q \in DOMAIN requests : requests[q].status = "PENDING"}
    ELSE {q \in DOMAIN requests : requests[q].employee = user}

\* AttendanceApprovalRequestAdmin.get_queryset: the requests (primary keys)
\* the admin shows to user.
get_queryset(user) ==
    IF is_superuser(user) \/ approval_level(user) = "HR_ADMIN"
    THEN DOMAIN requests
    ELSE IF approval_level(user) = "SUPERVISOR" /\ unit_supervised[user] # NoUnit
    THEN {q \in DOMAIN requests :
             /\ unit[requests[q].employee] = unit_supervised[user]
             /\ requests[q].status = "PENDING"}
    ELSE {q \in DOMAIN requests : requests[q].employee = user}

\* The admin change list of the approval requests, opened by user.
changelist_view(user) ==
    /\ returned' = [op |-> "get_queryset", user |-> user, visible |-> get_queryset(user)]
    /\ UNCHANGED <<employee_status, holidays, settings, attendance, requests, now, error>>
    /\ UNCHANGED <<unit, unit_supervised, procs>>

\* A caller asking request q whether user may review it as supervisor.
ask_can_user_review_as_supervisor(q, user) ==
    /\ q \in DOMAIN requests
    /\ returned' = [op |-> "can_user_review_as_supervisor", request |-> q, user |-> user,
                    value |-> can_user_review_as_supervisor(q, user)]
    /\ UNCHANGED <<employee_status, holidays, settings, attendance, requests, now, error>>
    /\ UNCHANGED <<unit, unit_supervised, procs>>

\* A caller asking request q whether user may review it as HR.
ask_can_user_review_as_hr(q, user) ==
    /\ q \in DOMAIN requests
    /\ returned' = [op |-> "can_user_review_as_hr", request |-> q, user |-> user,
                    value |-> can_user_review_as_hr(q, user)]
    /\ UNCHANGED <<employee_status, holidays, settings, attendance, requests, now, error>>
    /\ UNCHANGED <<unit, unit_supervised, procs>>

\* The change permission given to the supervisor whatever the request's status.
has_change_permission_AnyStatus(user, q) ==
    IF is_superuser(user) THEN TRUE
    ELSE IF approval_level(user) = "HR_ADMIN" THEN TRUE
    ELSE IF approval_level(user) = "SUPERVISOR" /\ q # NoObj
            /\ unit_supervised[user] # NoUnit
    THEN unit[requests[q].employee] = unit_supervised[user]
    ELSE FALSE

\* AttendanceApprovalRequestAdmin.has_change_permission(request, obj) for
\* request.user = user and obj = request q (or None).
has_change_permission(user, q) ==
    IF is_superuser(user) THEN TRUE
    ELSE IF approval_level(user) = "HR_ADMIN" THEN TRUE
    ELSE IF approval_level(user) = "SUPERVISOR" /\ q # NoObj
            /\ unit_supervised[user] # NoUnit
    THEN /\ unit[requests[q].employee] = unit_supervised[user]
         /\ requests[q].status = "PENDING"
    ELSE FALSE

\* The admin asking whether user may change request q (or, with no obj,
\* requests at all).
ask_has_change_permission(q, user) ==
    /\ q \in DOMAIN requests \cup {NoObj}
    /\ returned' = [op |-> "has_change_permission", request |-> q, user |-> user,
                    value |-> has_change_permission(user, q)]
    /\ UNCHANGED <<employee_status, holidays, settings, attendance, requests, now, error>>
    /\ UNCHANGED <<unit, unit_supervised, procs>>

\* AttendanceApprovalRequestAdmin change form, submitted by user for request
\* q: the object is looked up in get_queryset, the form needs the change
\* permission, and status is its one editable field (every other field of
\* the fieldsets is in readonly_fields).  The model has no clean() and no
\* save() override.
AttendanceApprovalRequestAdmin_change(user, q, st) ==
    /\ q \in get_queryset(user)
    /\ has_change_permission(user, q)
    /\ st \in REQUEST_STATUS_CHOICES
    /\ requests' = [requests EXCEPT ![q].status = st]
    /\ error' = ""
    /\ UNCHANGED <<employee_status, holidays, settings, attendance, now>>
    /\ UNCHANGED aux

(* ------------------- collaborators: employee, calendar, policy -------- *)
\* CustomUserAdmin change form: employee_status is an editable field.
set_employee_status(s) ==
    /\ s # employee_status
    /\ employee_status' = s
    /\ error' = ""
    /\ UNCHANGED <<holidays, settings, attendance, requests, now>>
    /\ UNCHANGED aux

\* EmployeeSuspension.save(): an active suspension whose period contains
\* today sets the employee's status to SUSPENDED.
EmployeeSuspension_save(is_active, in_period) ==
    /\ employee_status' = IF is_active /\ in_period THEN "SUSPENDED" ELSE employee_status
    /\ error' = ""
    /\ UNCHANGED <<holidays, settings, attendance, requests, now>>
    /\ UNCHANGED aux

\* HolidayAdmin add form; Holiday.date is unique.
Holiday_create(d, is_active) ==
    /\ d \in DOMAIN holidays /\ holidays[d] = "none"
    /\ holidays' = [holidays EXCEPT ![d] = IF is_active THEN "active" ELSE "inactive"]
    /\ error' = ""
    /\ UNCHANGED <<employee_status, settings, attendance, requests, now>>
    /\ UNCHANGED aux

\* The Holiday rows, as the set of their dates.
HolidayRows == {d \in DOMAIN holidays : holidays[d] # "none"}

activate_holidays(S) ==
    /\ S # {} /\ S \subseteq HolidayRows
    /\ holidays' = [d \in DOMAIN holidays |-> IF d \in S THEN "active" ELSE holidays[d]]
    /\ error' = ""
    /\ UNCHANGED <<employee_status, settings, attendance, requests, now>>
    /\ UNCHANGED aux

deactivate_holidays(S) ==
    /\ S # {} /\ S \subseteq HolidayRows
    /\ holidays' = [d \in DOMAIN holidays |-> IF d \in S THEN "inactive" ELSE holidays[d]]
    /\ error' = ""
    /\ UNCHANGED <<employee_status, settings, attendance, requests, now>>
    /\ UNCHANGED aux

\* AttendanceSettingsAdmin.has_add_permission
has_add_permission == ~(\E i \in DOMAIN settings : settings[i].is_active)

\* AttendanceSettingsAdmin add form.
AttendanceSettings_add(ws, is_active) ==
    /\ Len(settings) < MaxSettings
    /\ has_add_permission
    /\ settings' = Append(settings, [work_start_time |-> ws, is_active |-> is_active])
    /\ error' = ""
    /\ UNCHANGED <<employee_status, holidays, attendance, requests, now>>
    /\ UNCHANGED aux

\* AttendanceSettingsAdmin change form of an existing row.
AttendanceSettings_change(i, ws, is_active) ==
    /\ i \in DOMAIN settings
    /\ settings' = [settings EXCEPT ![i] = [work_start_time |-> ws, is_active |-> is_active]]
    /\ error' = ""
    /\ UNCHANGED <<employee_status, holidays, attendance, requests, now>>
    /\ UNCHANGED aux

(* --------------------------- specification ---------------------------- *)
Next ==
    \/ \E d \in Dates, ci \in ClockIns, co \in ClockOuts, st \in AssignedStatuses,
          fl \in BOOLEAN : Attendance_create(d, ci, co, st, fl)
    \/ \E a \in 1..MaxRecords, ci \in ClockIns, co \in ClockOuts,
          st \in AssignedStatuses, fl \in BOOLEAN : Attendance_update(a, ci, co, st, fl)
    \/ \E d \in Dates, ci \in ClockIns, co \in ClockOuts, st \in AssignedStatuses,
          fl \in BOOLEAN : AttendanceAdmin_add(d, ci, co, st, fl)
    \/ \E a \in 1..MaxRecords, ci \in ClockIns, co \in ClockOuts,
          st \in AssignedStatuses, fl \in BOOLEAN : AttendanceAdmin_change(a, ci, co, st, fl)
    \/ \E u \in Users, S \in SUBSET (1..MaxRecords) : mark_as_present(u, S)
    \/ \E a \in 1..MaxRecords : AttendanceApprovalRequest_create(Employee, a)
    \/ \E q \in 1..MaxRequests, u \in Reviewers, n \in Notes : supervisor_approve(q, u, n)
    \/ \E q \in 1..MaxRequests, u \in Reviewers, n \in Notes : supervisor_reject(q, u, n)
    \/ \E q \in 1..MaxRequests, u \in Reviewers, n \in Notes : hr_approve(q, u, n)
    \/ \E q \in 1..MaxRequests, u \in Reviewers, n \in Notes : hr_reject(q, u, n)
    \/ \E s \in EmployeeStatuses : set_employee_status(s)
    \/ \E act \in BOOLEAN, inp \in BOOLEAN : EmployeeSuspension_save(act, inp)
    \/ \E d \in Dates, act \in BOOLEAN : Holiday_create(d, act)
    \/ \E S \in SUBSET Dates : activate_holidays(S)
    \/ \E S \in SUBSET Dates : deactivate_holidays(S)
    \/ \E ws \in WorkStarts, act \in BOOLEAN : AttendanceSettings_add(ws, act)
    \/ \E i \in 1..MaxSettings, ws \in WorkStarts, act \in BOOLEAN :
          AttendanceSettings_change(i, ws, act)

Spec == Init /\ [][Next]_vars

\* The approval workflow alone: the employee stays active, the calendar
\* and the policy table stay empty.
NextWorkflow ==
    \/ \E d \in Dates, ci \in ClockIns, co \in ClockOuts, st \in AssignedStatuses,
          fl \in BOOLEAN : Attendance_create(d, ci, co, st, fl)
    \/ \E a \in 1..MaxRecords, ci \in ClockIns, co \in ClockOuts,
          st \in AssignedStatuses, fl \in BOOLEAN : Attendance_update(a, ci, co, st, fl)
    \/ \E u \in Users, S \in SUBSET (1..MaxRecords) : mark_as_present(u, S)
    \/ \E a \in 1..MaxRecords : AttendanceApprovalRequest_create(Employee, a)
    \/ \E q \in 1..MaxRequests, u \in Reviewers, n \in Notes : supervisor_approve(q, u, n)
    \/ \E q \in 1..MaxRequests, u \in Reviewers, n \in Notes : supervisor_reject(q, u, n)
    \/ \E q \in 1..MaxRequests, u \in Reviewers, n \in Notes : hr_approve(q, u, n)
    \/ \E q \in 1..MaxRequests, u \in Reviewers, n \in Notes : hr_reject(q, u, n)

SpecWorkflow == Init /\ [][NextWorkflow]_vars

\* The status engine alone: Attendance.save() applied to rows of every kind
\* of day, with clock times on both sides of the deadline, under every
\* employee status, holiday calendar and policy table (which the engine only
\* reads).  No approval request is filed.
EngineDates == {4, 5, 6}
EngineHolidayDates == {4, 5}
EngineClockIns == {Null, 540, 541}
EngineClockOuts == {Null, 1020}
EngineWorkStarts == {541}

HolidayTables == [EngineHolidayDates -> {"none", "active", "inactive"}]

SettingsTables ==
    UNION {[1..n -> [work_start_time : EngineWorkStarts, is_active : BOOLEAN]] :
              n \in 0..MaxSettings}

InitEngine ==
    /\ InitOrg
    /\ employee_status \in EMPLOYEE_STATUS_CHOICES
    /\ holidays \in HolidayTables
    /\ settings \in SettingsTables
    /\ attendance = <<>>
    /\ requests = <<>>
    /\ now = 0
    /\ error = ""

NextEngine ==
    \/ \E d \in EngineDates, ci \in EngineClockIns, co \in EngineClockOuts,
          st \in AssignedStatuses : Attendance_create(d, ci, co, st, FALSE)
    \/ \E a \in 1..MaxRecords, ci \in EngineClockIns, co \in EngineClockOuts,
          st \in AssignedStatuses : Attendance_update(a, ci, co, st, FALSE)

SpecEngine == InitEngine /\ [][NextEngine]_vars

\* The clock times and the hours: rows of a working day and of a Saturday
\* written by save() directly and through the admin forms, with clock-outs
\* after, at and before the clock-in.  The employee is active, no holiday and
\* no policy row exists.  A new row carries the default flag.
HoursDates == {4, 5}
HoursClockIns == {Null, 540, 541}
HoursClockOuts == {Null, 540, 1020, 1021}

NextHours ==
    \/ \E d \in HoursDates, ci \in HoursClockIns, co \in HoursClockOuts,
          st \in AssignedStatuses : Attendance_create(d, ci, co, st, FALSE)
    \/ \E a \in 1..MaxRecords, ci \in HoursClockIns, co \in HoursClockOuts,
          st \in AssignedStatuses, fl \in BOOLEAN : Attendance_update(a, ci, co, st, fl)
    \/ \E d \in HoursDates, ci \in HoursClockIns, co \in HoursClockOuts,
          st \in AssignedStatuses : AttendanceAdmin_add(d, ci, co, st, FALSE)
    \/ \E a \in 1..MaxRecords, ci \in HoursClockIns, co \in HoursClockOuts,
          st \in AssignedStatuses, fl \in BOOLEAN : AttendanceAdmin_change(a, ci, co, st, fl)

SpecHours == Init /\ [][NextHours]_vars

\* Requests filed only after can_request_approval() answered True, and
\* reviewed: the rows are written by save() with the default flag, nothing
\* else touches them.
NextGated ==
    \/ \E d \in Dates, ci \in ClockIns, co \in ClockOuts, st \in AssignedStatuses :
          Attendance_create(d, ci, co, st, FALSE)
    \/ \E a \in 1..MaxRecords : create_if_can_request_approval(a)
    \/ \E q \in 1..MaxGatedRequests, u \in Reviewers, n \in Notes : supervisor_approve(q, u, n)
    \/ \E q \in 1..MaxGatedRequests, u \in Reviewers, n \in Notes : supervisor_reject(q, u, n)
    \/ \E q \in 1..MaxGatedRequests, u \in Reviewers, n \in Notes : hr_approve(q, u, n)
    \/ \E q \in 1..MaxGatedRequests, u \in Reviewers, n \in Notes : hr_reject(q, u, n)

SpecGated == Init /\ [][NextGated]_vars

\* Who may see and review what: every assignment of the employee and the
\* supervisor-level user to units and of units to supervisors (a user
\* supervises at most one unit, a unit has at most one supervisor), requests
\* filed by either of them, pending or approved by a supervisor, and the
\* queries of every user.
Requesters == {"emp", "sup"}

UnitAssignments ==
    {f \in [Users -> Units \cup {NoUnit}] : f["hr"] = NoUnit /\ f["root"] = NoUnit}

SupervisedAssignments ==
    {f \in UnitAssignments :
        \A s, t \in Users : (s # t /\ f[s] # NoUnit) => f[s] # f[t]}

InitAccess ==
    /\ unit \in UnitAssignments
    /\ unit_supervised \in SupervisedAssignments
    /\ returned = NoReturn
    /\ procs = [p \in Procs |-> Idle]
    /\ employee_status = "ACTIVE"
    /\ holidays = [d \in Dates |-> "none"]
    /\ settings = <<>>
    /\ attendance = <<>>
    /\ requests = <<>>
    /\ now = 0
    /\ error = ""

NextAccess ==
    \/ \E d \in Dates : Attendance_create(d, Null, Null, "ABSENT", FALSE)
    \/ \E e \in Requesters, a \in 1..MaxRecords : AttendanceApprovalRequest_create(e, a)
    \/ \E q \in 1..MaxRequests, u \in Reviewers : supervisor_approve(q, u, NoNotes)
    \/ \E u \in Users : changelist_view(u)
    \/ \E q \in 1..MaxRequests, u \in Users : ask_can_user_review_as_supervisor(q, u)
    \/ \E q \in 1..MaxRequests, u \in Users : ask_can_user_review_as_hr(q, u)
    \/ \E q \in 0..MaxRequests, u \in Users : ask_has_change_permission(q, u)

SpecAccess == InitAccess /\ [][NextAccess]_vars

\* The reviews made through the review methods and through the admin change
\* form of the requests, on requests filed against ABSENT rows.  The form can
\* reopen a request, so the clock of the reviews is capped.
NextReviewAdmin ==
    \/ \E d \in Dates : Attendance_create(d, Null, Null, "ABSENT", FALSE)
    \/ \E a \in 1..MaxRecords : AttendanceApprovalRequest_create(Employee, a)
    \/ now < MaxNow /\ \E q \in 1..MaxRequests, u \in Reviewers, n \in Notes :
                          supervisor_approve(q, u, n)
    \/ now < MaxNow /\ \E q \in 1..MaxRequests, u \in Reviewers, n \in Notes :
                          supervisor_reject(q, u, n)
    \/ now < MaxNow /\ \E q \in 1..MaxRequests, u \in Reviewers, n \in Notes :
                          hr_approve(q, u, n)
    \/ now < MaxNow /\ \E q \in 1..MaxRequests, u \in Reviewers, n \in Notes :
                          hr_reject(q, u, n)
    \/ \E u \in Users, q \in 1..MaxRequests, st \in REQUEST_STATUS_CHOICES :
          AttendanceApprovalRequestAdmin_change(u, q, st)

SpecReviewAdmin == Init /\ [][NextReviewAdmin]_vars

\* The bulk action on a changelist of several rows: the rows of consecutive
\* days, each as Attendance.save() wrote it, with and without clock times
\* and flag; requests are filed against them and the bulk action is run by
\* every kind of user on every selection.
BulkRows(i) ==
    {Attendance_save([date |-> 3 + i, clock_in_time |-> ci, clock_out_time |-> co,
                      employeeDayStatus |-> "ABSENT", hours_worked |-> NullHours,
                      has_pending_approval_request |-> fl]) :
        ci \in ClockIns, co \in ClockOuts, fl \in BOOLEAN}

InitBulk ==
    /\ InitOrg
    /\ employee_status = "ACTIVE"
    /\ holidays = [d \in Dates |-> "none"]
    /\ settings = <<>>
    /\ attendance \in {t \in [1..BulkRecords -> UNION {BulkRows(i) : i \in 1..BulkRecords}] :
                          \A i \in 1..BulkRecords : t[i] \in BulkRows(i)}
    /\ requests = <<>>
    /\ now = 0
    /\ error = ""

NextBulk ==
    \/ \E u \in Users, S \in SUBSET (1..BulkRecords) : mark_as_present(u, S)
    \/ \E a \in 1..BulkRecords : AttendanceApprovalRequest_create(Employee, a)

SpecBulk == InitBulk /\ [][NextBulk]_vars

\* Two calls served at once.  The rows are set up first, by calls served
\* alone: an ABSENT row of a working day, with the flag as the caller set it,
\* filed requests, a supervisor's approval.  Then two workers serve one call each,
\* and a worker starts only while the other has not written anything yet.
AllIdle == \A p \in Procs : procs[p].pc = "idle"
NoneWrote == \A p \in Procs : procs[p].pc \in BeforeWrite
ActorOf(op) == IF op \in SupervisorOps THEN unit_supervisor ELSE "hr"

NextConcurrent ==
    \/ AllIdle /\ \E d \in Dates, fl \in BOOLEAN : Attendance_create(d, Null, Null, "ABSENT", fl)
    \/ AllIdle /\ \E a \in 1..MaxRecords : AttendanceApprovalRequest_create(Employee, a)
    \/ AllIdle /\ \E q \in 1..MaxRequests : supervisor_approve(q, unit_supervisor, NoNotes)
    \/ NoneWrote /\ \E p \in Procs, op \in ReviewOps, q \in 1..MaxRequests, eager \in BOOLEAN :
                       load_request(p, op, q, ActorOf(op), "seen", eager)
    \/ NoneWrote /\ \E p \in Procs, a \in 1..MaxRecords : load_for_clock(p, a, 540, 1020)
    \/ NoneWrote /\ \E p \in Procs, a \in 1..MaxRecords : check_can_request_approval(p, a)
    \/ \E p \in Procs : review_save(p)
    \/ \E p \in Procs : load_attendance(p)
    \/ \E p \in Procs : save_attendance(p)
    \/ \E p \in Procs : save_clock(p)
    \/ \E p \in Procs : insert_request(p)

SpecConcurrent == Init /\ [][NextConcurrent]_vars

(* ============================ properties ============================== *)
\* The calls of the review methods, as (request, actor, notes).
ReviewArgs == (1..MaxRequests) \X Reviewers \X Notes

\* The attendance row a request is linked to.
Linked(q) == requests[q].attendance

\* C1: for a request whose linked attendance row is ABSENT, a completed
\* hr_approve by an HR admin, following a completed supervisor_approve by
\* the unit's supervisor, leaves the request HR_APPROVED, the row's
\* persisted employeeDayStatus PRESENT and its
\* has_pending_approval_request false.
C1_HrApproveMarksPresent ==
    [][\A c \in ReviewArgs :
          (/\ hr_approve(c[1], c[2], c[3])
           /\ can_user_review_as_hr(c[1], c[2])
           /\ requests[c[1]].status = "SUPERVISOR_APPROVED"
           /\ requests[c[1]].supervisor_reviewed_at # Null
           /\ requests[c[1]].supervisor_reviewed_by = unit_supervisor
           /\ attendance[Linked(c[1])].employeeDayStatus = "ABSENT")
          => /\ requests'[c[1]].status = "HR_APPROVED"
             /\ attendance'[Linked(c[1])].employeeDayStatus = "PRESENT"
             /\ ~attendance'[Linked(c[1])].has_pending_approval_request]_vars

\* The status changes the workflow allows.
AllowedTransitions ==
    {<<"PENDING", "SUPERVISOR_APPROVED">>, <<"PENDING", "REJECTED">>,
     <<"SUPERVISOR_APPROVED", "HR_APPROVED">>, <<"SUPERVISOR_APPROVED", "REJECTED">>}

\* C2: a request is created PENDING; every step of the workflow either
\* leaves its status alone or moves it along PENDING -> SUPERVISOR_APPROVED,
\* PENDING -> REJECTED, SUPERVISOR_APPROVED -> HR_APPROVED or
\* SUPERVISOR_APPROVED -> REJECTED, so that a REJECTED or HR_APPROVED
\* request keeps its status for ever.
C2_StatusMachine ==
    [][\A q \in 1..MaxRequests :
          /\ (q \notin DOMAIN requests /\ q \in DOMAIN requests')
                => requests'[q].status = "PENDING"
          /\ q \in DOMAIN requests
                => /\ q \in DOMAIN requests'
                   /\ \/ requests'[q].status = requests[q].status
                      \/ <<requests[q].status, requests'[q].status>> \in AllowedTransitions]_vars

\* A request that went PENDING -> SUPERVISOR_APPROVED -> HR_APPROVED and on
\* which a further review call was then refused.
C2_Witness ==
    \E q \in DOMAIN requests :
        /\ requests[q].status = "HR_APPROVED"
        /\ requests[q].supervisor_reviewed_at # Null
        /\ requests[q].hr_reviewed_at # Null
        /\ error = "ValidationError"

\* C3: a review call made outside its source state (PENDING for the
\* supervisor calls, SUPERVISOR_APPROVED for the HR calls) raises
\* ValidationError and leaves every request and every attendance row as it
\* was.
C3_WrongStateChangesNothing ==
    [][\A c \in ReviewArgs :
          /\ ((supervisor_approve(c[1], c[2], c[3]) \/ supervisor_reject(c[1], c[2], c[3]))
                 /\ requests[c[1]].status # "PENDING")
                => (error' = "ValidationError" /\ UNCHANGED <<requests, attendance>>)
          /\ ((hr_approve(c[1], c[2], c[3]) \/ hr_reject(c[1], c[2], c[3]))
                 /\ requests[c[1]].status # "SUPERVISOR_APPROVED")
                => (error' = "ValidationError" /\ UNCHANGED <<requests, attendance>>)]_vars

\* A request the supervisor rejected, its attendance row still ABSENT, right
\* after a further review call (such as hr_approve) was refused.
C3_Witness ==
    \E q \in DOMAIN requests :
        /\ requests[q].status = "REJECTED"
        /\ requests[q].hr_reviewed_at = Null
        /\ attendance[Linked(q)].employeeDayStatus = "ABSENT"
        /\ error = "ValidationError"

\* C4: supervisor_approve or supervisor_reject on a PENDING request by an
\* actor who is not the supervisor of the employee's unit raises an
\* authorization error and leaves requests and attendance rows unchanged.
C4_SupervisorCallsAuthorized ==
    [][\A c \in ReviewArgs :
          ((supervisor_approve(c[1], c[2], c[3]) \/ supervisor_reject(c[1], c[2], c[3]))
              /\ requests[c[1]].status = "PENDING"
              /\ ~can_user_review_as_supervisor(c[1], c[2]))
          => (error' = "UnauthorizedError" /\ UNCHANGED <<requests, attendance>>)]_vars

\* C5: hr_approve or hr_reject on a SUPERVISOR_APPROVED request by an actor
\* whose approval_level is not HR_ADMIN raises an authorization error and
\* leaves requests and attendance rows unchanged.
C5_HrCallsAuthorized ==
    [][\A c \in ReviewArgs :
          ((hr_approve(c[1], c[2], c[3]) \/ hr_reject(c[1], c[2], c[3]))
              /\ requests[c[1]].status = "SUPERVISOR_APPROVED"
              /\ ~can_user_review_as_hr(c[1], c[2]))
          => (error' = "UnauthorizedError" /\ UNCHANGED <<requests, attendance>>)]_vars

\* The priority cascade: SUSPENDED, ON_LEAVE, WEEKEND, HOLIDAY, then the
\* clock-in rule against the deadline.
PriorityCascade(es, d, holiday, ci, deadline) ==
    IF es = "SUSPENDED" THEN "SUSPENDED"
    ELSE IF es = "ON_LEAVE" THEN "ON_LEAVE"
    ELSE IF weekday(d) = 5 \/ weekday(d) = 6 THEN "WEEKEND"
    ELSE IF holiday THEN "HOLIDAY"
    ELSE IF ci # Null /\ ci <= deadline THEN "PRESENT"
    ELSE "ABSENT"

\* Row a carries the status the cascade gives for the current employee
\* status, calendar and policy.
Cascaded(a) ==
    attendance[a].employeeDayStatus =
        PriorityCascade(employee_status, attendance[a].date,
                        IsActiveHoliday(attendance[a].date),
                        attendance[a].clock_in_time, work_start)

\* The review call c completes a transition that saves the linked row.
SavingReview(c) ==
    \/ supervisor_reject(c[1], c[2], c[3]) /\ requests[c[1]].status = "PENDING"
    \/ hr_approve(c[1], c[2], c[3]) /\ requests[c[1]].status = "SUPERVISOR_APPROVED"
    \/ hr_reject(c[1], c[2], c[3]) /\ requests[c[1]].status = "SUPERVISOR_APPROVED"

\* The step is a call of Attendance_create: it adds a row, the one that
\* Attendance.save() writes for the date, clock times and flag of that row
\* (the status the caller assigned is overwritten, so any value stands for it).
IsCreate ==
    /\ Len(attendance') = Len(attendance) + 1
    /\ LET row == attendance'[Len(attendance')]
       IN Attendance_create(row.date, row.clock_in_time, row.clock_out_time,
                            row.employeeDayStatus, row.has_pending_approval_request)

\* The step is a call of Attendance_update on row a, with some arguments.
IsUpdate(a) ==
    /\ a \in DOMAIN attendance
    /\ Len(attendance') = Len(attendance)
    /\ now' = now /\ error' = "" /\ requests' = requests
    /\ Attendance_update(a, attendance'[a].clock_in_time, attendance'[a].clock_out_time,
                         attendance'[a].employeeDayStatus,
                         attendance'[a].has_pending_approval_request)

\* The step is a completed supervisor_reject, hr_approve or hr_reject of
\* request q, by some actor with some notes.
IsSavingReview(q) ==
    /\ q \in DOMAIN requests
    /\ now' = now + 1
    /\ requests'[q].status # requests[q].status
    /\ \/ SavingReview(<<q, requests'[q].supervisor_reviewed_by,
                            requests'[q].supervisor_review_notes>>)
       \/ SavingReview(<<q, requests'[q].hr_reviewed_by, requests'[q].hr_review_notes>>)

\* C6: after every Attendance.save() - of a new row, of an edited row, or
\* the one inside supervisor_reject, hr_approve and hr_reject - the persisted
\* employeeDayStatus is the result of the priority cascade, whatever status
\* the caller had assigned before the save.
C6_SaveRederivesStatus ==
    [][/\ IsCreate => Cascaded(Len(attendance))'
       /\ \A a \in 1..MaxRecords : IsUpdate(a) => Cascaded(a)'
       /\ \A q \in 1..MaxRequests : IsSavingReview(q) => Cascaded(Linked(q))']_vars

\* hr_approve has just assigned PRESENT and saved, and the row is persisted
\* as ABSENT.
C6_Witness ==
    \E q \in DOMAIN requests :
        /\ requests[q].status = "HR_APPROVED"
        /\ requests[q].hr_reviewed_at = now - 1
        /\ error = ""
        /\ attendance[Linked(q)].employeeDayStatus = "ABSENT"
        /\ ~attendance[Linked(q)].has_pending_approval_request

\* The step is a completed hr_approve of a request linked to row a.
ByHrApprove(a) ==
    \E c \in ReviewArgs :
        /\ hr_approve(c[1], c[2], c[3])
        /\ requests[c[1]].status = "SUPERVISOR_APPROVED"
        /\ Linked(c[1]) = a

\* The step saves row a with a clock-in at or before the deadline.
BySaveOnTime(a) ==
    /\ \/ IsUpdate(a)
       \/ \E q \in DOMAIN requests : Linked(q) = a /\ IsSavingReview(q)
    /\ attendance'[a].clock_in_time # Null
    /\ attendance'[a].clock_in_time <= work_start'

\* C7: a row whose status is ABSENT becomes PRESENT only by an hr_approve of
\* a linked request or by a save whose clock-in is at or before the
\* work-start deadline; no other operation changes ABSENT to PRESENT.
C7_AbsentToPresentOnlyByWorkflow ==
    [][\A a \in DOMAIN attendance :
          (attendance[a].employeeDayStatus = "ABSENT"
             /\ attendance'[a].employeeDayStatus = "PRESENT")
          => (ByHrApprove(a) \/ BySaveOnTime(a))]_vars

\* C8: whenever the employee is SUSPENDED, every row written by
\* Attendance.save() - on a weekday, a weekend or a holiday, with or without
\* clock times - has employeeDayStatus SUSPENDED.
C8_SuspendedWins ==
    employee_status = "SUSPENDED"
        => \A a \in DOMAIN attendance : attendance[a].employeeDayStatus = "SUSPENDED"

\* Row a was saved for a Saturday that is also an active holiday, with a
\* clock-in on time and a clock-out.
OnTimeOnSaturdayHoliday(a) ==
    /\ weekday(attendance[a].date) = 5
    /\ IsActiveHoliday(attendance[a].date)
    /\ attendance[a].clock_in_time # Null
    /\ attendance[a].clock_in_time <= work_start
    /\ attendance[a].clock_out_time # Null

C8_Witness ==
    /\ employee_status = "SUSPENDED"
    /\ \E a \in DOMAIN attendance :
          OnTimeOnSaturdayHoliday(a) /\ attendance[a].employeeDayStatus = "SUSPENDED"

\* C9: whenever the employee is ON_LEAVE, every row written by
\* Attendance.save() has employeeDayStatus ON_LEAVE, on Saturdays, Sundays
\* and active holidays too and whatever the clock times.
C9_OnLeaveOutranksCalendar ==
    employee_status = "ON_LEAVE"
        => \A a \in DOMAIN attendance : attendance[a].employeeDayStatus = "ON_LEAVE"

C9_Witness ==
    /\ employee_status = "ON_LEAVE"
    /\ \E a \in DOMAIN attendance :
          OnTimeOnSaturdayHoliday(a) /\ attendance[a].employeeDayStatus = "ON_LEAVE"

\* C10: when the employee is neither SUSPENDED nor ON_LEAVE, every row
\* written by Attendance.save() for a Saturday or a Sunday is WEEKEND, also
\* when an active Holiday row exists for that date and whatever the clock
\* times.
C10_WeekendWinsOverHoliday ==
    employee_status \notin {"SUSPENDED", "ON_LEAVE"}
        => \A a \in DOMAIN attendance :
              weekday(attendance[a].date) \in {5, 6}
                 => attendance[a].employeeDayStatus = "WEEKEND"

C10_Witness ==
    /\ employee_status \notin {"SUSPENDED", "ON_LEAVE"}
    /\ \E a \in DOMAIN attendance :
          OnTimeOnSaturdayHoliday(a) /\ attendance[a].employeeDayStatus = "WEEKEND"

\* None of the SUSPENDED, ON_LEAVE and WEEKEND rules applies to row a.
OrdinaryWeekday(a) ==
    /\ employee_status \notin {"SUSPENDED", "ON_LEAVE"}
    /\ weekday(attendance[a].date) \notin {5, 6}

\* Row a has a clock-in at or before the deadline t.
OnTime(a, t) ==
    attendance[a].clock_in_time # Null /\ attendance[a].clock_in_time <= t

\* C11: for an employee neither SUSPENDED nor ON_LEAVE and a Monday-to-Friday
\* date, the saved status is HOLIDAY exactly when a Holiday row of that date
\* with is_active true exists; an inactive Holiday row is ignored and the
\* clock-in rule decides.
C11_HolidayIffActiveRow ==
    \A a \in DOMAIN attendance :
        OrdinaryWeekday(a) =>
            LET d == attendance[a].date
                row == IF d \in DOMAIN holidays THEN holidays[d] ELSE "none"
            IN /\ attendance[a].employeeDayStatus = "HOLIDAY" <=> row = "active"
               /\ row = "inactive" =>
                     attendance[a].employeeDayStatus =
                         IF OnTime(a, work_start) THEN "PRESENT" ELSE "ABSENT"

\* A Friday with an inactive Holiday row, clocked in on time: saved PRESENT.
C11_Witness ==
    \E a \in DOMAIN attendance :
        /\ OrdinaryWeekday(a)
        /\ holidays[attendance[a].date] = "inactive"
        /\ OnTime(a, work_start)
        /\ attendance[a].employeeDayStatus = "PRESENT"

ActiveSettings == {i \in DOMAIN settings : settings[i].is_active}

\* C13: with no active AttendanceSettings row the clock-in rule is evaluated
\* against 09:00; with an active row, against that row's work_start_time.
C13_DeadlineFallback ==
    \A a \in DOMAIN attendance :
        (OrdinaryWeekday(a) /\ holidays[attendance[a].date] # "active")
        => /\ ActiveSettings = {} =>
                 (attendance[a].employeeDayStatus = "PRESENT" <=> OnTime(a, 9 * 60))
           /\ ActiveSettings # {} =>
                 \E i \in ActiveSettings :
                     /\ \A j \in ActiveSettings : i <= j
                     /\ attendance[a].employeeDayStatus = "PRESENT"
                           <=> OnTime(a, settings[i].work_start_time)

\* The only settings row is inactive and allows 09:01; a 09:01 clock-in is
\* judged against 09:00 and saved ABSENT.
C13_Witness ==
    \E a \in DOMAIN attendance :
        /\ OrdinaryWeekday(a) /\ holidays[attendance[a].date] # "active"
        /\ settings # <<>> /\ ActiveSettings = {}
        /\ attendance[a].clock_in_time = settings[1].work_start_time
        /\ attendance[a].employeeDayStatus = "ABSENT"

\* Row a has both a clock-in and a clock-out time.
BothTimes(a) ==
    attendance[a].clock_in_time # Null /\ attendance[a].clock_out_time # Null

\* C14: every persisted row with both clock times has clock_out_time
\* strictly after clock_in_time (a write with clock_out_time <=
\* clock_in_time is refused before anything is persisted).
C14_ClockOutAfterClockIn ==
    \A a \in DOMAIN attendance :
        BothTimes(a) => attendance[a].clock_out_time > attendance[a].clock_in_time

\* C15: after any sequence of saves, the persisted hours_worked is null
\* unless both clock_in_time and clock_out_time are present: every save of
\* a row (whose clock-out, if it had both times, was after its clock-in)
\* leaves hours_worked null or both times present.
C15_HoursNullUnlessBothTimes ==
    [][\A a \in 1..MaxRecords :
          (/\ IsUpdate(a)
           /\ BothTimes(a) => attendance[a].clock_out_time > attendance[a].clock_in_time)
          => (attendance'[a].hours_worked # NullHours => BothTimes(a)')]_vars

\* C16: a saved row with both times carries, as hours_worked, the
\* difference clock_out_time - clock_in_time in hours rounded to two
\* decimals (the hundredth nearest to minutes / 60), whatever its day
\* status; 09:00 to 17:00 gives exactly 8.00.
C16_HoursRounded ==
    \A a \in DOMAIN attendance :
        BothTimes(a) =>
            LET m == attendance[a].clock_out_time - attendance[a].clock_in_time
                h == attendance[a].hours_worked
            IN /\ h # NullHours
               /\ 6 * h - 10 * m <= 3 /\ 10 * m - 6 * h <= 3
               /\ (attendance[a].clock_in_time = 9 * 60
                     /\ attendance[a].clock_out_time = 17 * 60) => h = 800

\* A Saturday row (WEEKEND) clocked 09:00 to 17:01: 8.0167 hours, saved as 8.02.
C16_Witness ==
    \E a \in DOMAIN attendance :
        /\ attendance[a].employeeDayStatus = "WEEKEND"
        /\ attendance[a].clock_in_time = 540 /\ attendance[a].clock_out_time = 1021
        /\ attendance[a].hours_worked = 802

\* C17: a save of a row with the clock times it already carries (the
\* employee's state, the holidays and the policy being those of the save
\* before) leaves the persisted employeeDayStatus and hours_worked as the
\* save before left them.
C17_SaveIdempotent ==
    [][\A a \in 1..MaxRecords :
          (/\ IsUpdate(a)
           /\ attendance'[a].clock_in_time = attendance[a].clock_in_time
           /\ attendance'[a].clock_out_time = attendance[a].clock_out_time)
          => /\ attendance'[a].employeeDayStatus = attendance[a].employeeDayStatus
             /\ attendance'[a].hours_worked = attendance[a].hours_worked]_vars

\* A row clocked 09:00 to 17:00 that was saved again after its creation (the
\* flag, false on every new row, was set by the later save): PRESENT, 8.00.
C17_Witness ==
    \E a \in DOMAIN attendance :
        /\ attendance[a].has_pending_approval_request
        /\ attendance[a].clock_in_time = 540 /\ attendance[a].clock_out_time = 1020
        /\ attendance[a].employeeDayStatus = "PRESENT"
        /\ attendance[a].hours_worked = 800
        /\ error = ""

\* C18: creating an approval request against a row that is not ABSENT, or
\* that already has has_pending_approval_request true, fails with a
\* precondition error and creates no request.
C18_CreationRefusedUnlessAbsent ==
    [][\A a \in 1..MaxRecords :
          (AttendanceApprovalRequest_create(Employee, a) /\ ~can_request_approval(a))
          => (error' = "PreconditionError" /\ requests' = requests)]_vars

\* C19: creating an approval request against an ABSENT row with no pending
\* request sets the row's has_pending_approval_request to true, so that
\* can_request_approval() is false for the row afterwards.
C19_CreationSetsPendingFlag ==
    [][\A a \in 1..MaxRecords :
          (AttendanceApprovalRequest_create(Employee, a) /\ can_request_approval(a))
          => /\ attendance'[a].has_pending_approval_request
             /\ ~can_request_approval(a)']_vars

\* The requests linked to row a that are PENDING or SUPERVISOR_APPROVED.
ActiveRequests(a) ==
    {q \in DOMAIN requests :
        /\ requests[q].attendance = a
        /\ requests[q].status \in {"PENDING", "SUPERVISOR_APPROVED"}}

\* C20: when requests are created only after can_request_approval()
\* answered True and are moved only by the four review methods, every
\* attendance row has at most one linked request that is PENDING or
\* SUPERVISOR_APPROVED.
C20_AtMostOneActiveRequest ==
    \A a \in DOMAIN attendance : Cardinality(ActiveRequests(a)) <= 1

\* The review call c is made in the source state of its method, by an actor
\* entitled to it.
SupervisorCall(c) ==
    requests[c[1]].status = "PENDING" /\ can_user_review_as_supervisor(c[1], c[2])

HrCall(c) ==
    requests[c[1]].status = "SUPERVISOR_APPROVED" /\ can_user_review_as_hr(c[1], c[2])

\* C22: when a request reaches REJECTED (supervisor_reject, hr_reject) or
\* HR_APPROVED (hr_approve), the linked row's has_pending_approval_request
\* is false afterwards; supervisor_approve leaves the flag as it is, so a
\* true flag stays true.
C22_FlagClearedOnTerminal ==
    [][\A c \in ReviewArgs :
          /\ ((supervisor_reject(c[1], c[2], c[3]) /\ requests[c[1]].status = "PENDING")
                 \/ ((hr_approve(c[1], c[2], c[3]) \/ hr_reject(c[1], c[2], c[3]))
                        /\ requests[c[1]].status = "SUPERVISOR_APPROVED"))
                => /\ requests'[c[1]].status \in {"REJECTED", "HR_APPROVED"}
                   /\ ~attendance'[Linked(c[1])].has_pending_approval_request
          /\ (supervisor_approve(c[1], c[2], c[3]) /\ requests[c[1]].status = "PENDING")
                => attendance'[Linked(c[1])].has_pending_approval_request
                      = attendance[Linked(c[1])].has_pending_approval_request]_vars

\* A request the supervisor approved while the flag was true and HR then
\* rejected: the flag is false.
C22_Witness ==
    \E q \in DOMAIN requests :
        /\ requests[q].status = "REJECTED"
        /\ requests[q].hr_reviewed_at = now - 1
        /\ requests[q].supervisor_reviewed_at # Null
        /\ ~attendance[Linked(q)].has_pending_approval_request
        /\ error = ""

\* C23: supervisor_reject and hr_reject leave the linked row's
\* employeeDayStatus as it was before the call (it remains ABSENT), also when
\* the employee's status, the holidays or the active policy changed after the
\* row was last saved.
C23_RejectKeepsDayStatus ==
    [][\A c \in ReviewArgs :
          (/\ \/ supervisor_reject(c[1], c[2], c[3]) /\ SupervisorCall(c)
              \/ hr_reject(c[1], c[2], c[3]) /\ HrCall(c)
           /\ attendance[Linked(c[1])].employeeDayStatus = "ABSENT")
          => attendance'[Linked(c[1])].employeeDayStatus = "ABSENT"]_vars

\* C24: supervisor_approve on a PENDING request sets the status to
\* SUPERVISOR_APPROVED and records the reviewer, the notes and the time of
\* the call; the HR review fields, every other request and every attendance
\* row stay as they were.
C24_SupervisorApproveFrame ==
    [][\A c \in ReviewArgs :
          (supervisor_approve(c[1], c[2], c[3]) /\ requests[c[1]].status = "PENDING")
          => /\ requests'[c[1]].status = "SUPERVISOR_APPROVED"
             /\ requests'[c[1]].supervisor_reviewed_by = c[2]
             /\ requests'[c[1]].supervisor_review_notes = c[3]
             /\ requests'[c[1]].supervisor_reviewed_at = now
             /\ requests'[c[1]].hr_reviewed_by = requests[c[1]].hr_reviewed_by
             /\ requests'[c[1]].hr_review_notes = requests[c[1]].hr_review_notes
             /\ requests'[c[1]].hr_reviewed_at = requests[c[1]].hr_reviewed_at
             /\ requests'[c[1]].attendance = requests[c[1]].attendance
             /\ requests'[c[1]].employee = requests[c[1]].employee
             /\ \A r \in DOMAIN requests : r # c[1] => requests'[r] = requests[r]
             /\ attendance' = attendance]_vars

\* A request just approved by the supervisor, with notes: the HR fields are
\* null and the linked row is still ABSENT with its flag set.
C24_Witness ==
    \E q \in DOMAIN requests :
        /\ requests[q].status = "SUPERVISOR_APPROVED"
        /\ requests[q].supervisor_reviewed_by = unit_supervisor
        /\ requests[q].supervisor_review_notes = "seen"
        /\ requests[q].supervisor_reviewed_at = now - 1
        /\ requests[q].hr_reviewed_by = NoUser /\ requests[q].hr_reviewed_at = Null
        /\ attendance[Linked(q)].employeeDayStatus = "ABSENT"
        /\ attendance[Linked(q)].has_pending_approval_request
        /\ error = ""

\* C25: supervisor_reject and hr_reject called without notes (None) raise
\* ValidationError and leave the request and the attendance row unchanged.
C25_RejectionNeedsNotes ==
    [][\A c \in ReviewArgs :
          (/\ c[3] = NoNotes
           /\ \/ supervisor_reject(c[1], c[2], c[3]) /\ SupervisorCall(c)
              \/ hr_reject(c[1], c[2], c[3]) /\ HrCall(c))
          => (error' = "ValidationError" /\ UNCHANGED <<requests, attendance>>)]_vars

\* Everything but the value returned by the last query.
data == <<employee_status, holidays, settings, attendance, requests, now, error,
          unit, unit_supervised, procs>>

\* C28: can_user_review_as_supervisor(user) is truthy exactly when the
\* request's employee has a unit, the unit has a supervisor and that
\* supervisor is user; can_user_review_as_hr(user) is true exactly when
\* user's approval_level is HR_ADMIN; neither changes any state.
C28_CapabilityChecks ==
    [][/\ (returned' # returned /\ returned'.op = "can_user_review_as_supervisor")
            => /\ UNCHANGED data
               /\ LET u == unit[requests[returned'.request].employee]
                  IN returned'.value
                        <=> /\ u # NoUnit
                            /\ \E s \in Users : unit_supervised[s] = u
                            /\ unit_supervised[returned'.user] = u
       /\ (returned' # returned /\ returned'.op = "can_user_review_as_hr")
            => /\ UNCHANGED data
               /\ returned'.value <=> approval_level(returned'.user) = "HR_ADMIN"]_vars

\* The supervisor-level user supervises a unit, but not the unit of the
\* request's employee, and was answered no.
C28_Witness ==
    /\ returned.op = "can_user_review_as_supervisor"
    /\ approval_level(returned.user) = "SUPERVISOR"
    /\ unit_supervised[returned.user] # NoUnit
    /\ unit[requests[returned.request].employee] # NoUnit
    /\ unit[requests[returned.request].employee] # unit_supervised[returned.user]
    /\ returned.value = FALSE

\* The actor's role as the admin distinguishes it.
SeesAll(user) == is_superuser(user) \/ approval_level(user) = "HR_ADMIN"
SeesUnit(user) ==
    ~SeesAll(user) /\ approval_level(user) = "SUPERVISOR" /\ unit_supervised[user] # NoUnit

\* The requests of the employees of the unit user supervises.
UnitRequests(user) ==
    {q \in DOMAIN requests : unit[requests[q].employee] = unit_supervised[user]}

\* The requests user filed.
OwnRequests(user) == {q \in DOMAIN requests : requests[q].employee = user}

\* C29 as stated: an actor sees all requests when superuser or HR_ADMIN, the
\* requests of the employees of the supervised unit when a supervisor, and
\* only the own requests otherwise.
C29_VisibleByRole ==
    [][(returned' # returned /\ returned'.op = "get_queryset")
          => LET user == returned'.user
             IN returned'.visible =
                   IF SeesAll(user) THEN DOMAIN requests
                   ELSE IF SeesUnit(user) THEN UnitRequests(user)
                   ELSE OwnRequests(user)]_vars

\* C29 amended: as stated, except that a supervisor sees, of the requests of
\* the supervised unit's employees, the PENDING ones only.
C29_VisibleByRolePendingForSupervisor ==
    [][(returned' # returned /\ returned'.op = "get_queryset")
          => LET user == returned'.user
             IN returned'.visible =
                   IF SeesAll(user) THEN DOMAIN requests
                   ELSE IF SeesUnit(user)
                   THEN {q \in UnitRequests(user) : requests[q].status = "PENDING"}
                   ELSE OwnRequests(user)]_vars

\* A supervisor opened the list; the request of an employee of the
\* supervised unit, already approved by a supervisor, is not on it.
C29_Witness ==
    /\ returned.op = "get_queryset"
    /\ SeesUnit(returned.user)
    /\ \E q \in UnitRequests(returned.user) :
          /\ requests[q].status = "SUPERVISOR_APPROVED"
          /\ requests[q].employee # returned.user
          /\ q \notin returned.visible

\* C30: after any sequence of admin operations on AttendanceSettings (adding
\* rows while has_add_permission allows it, editing rows), at most one row
\* has is_active true.
C30_AtMostOneActiveSettings ==
    Cardinality({i \in DOMAIN settings : settings[i].is_active}) <= 1

\* C21: of two workers that concurrently file a request against the same
\* ABSENT row with no pending request, at most one inserts a request.
C21_OneConcurrentCreationSucceeds ==
    \A p1, p2 \in Procs :
        (p1 # p2 /\ procs[p1].op = "create" /\ procs[p2].op = "create"
            /\ procs[p1].a = procs[p2].a)
        => ~(procs[p1].outcome = "created" /\ procs[p2].outcome = "created")

\* Both workers have served a review call on request q.
BothReviewed(q) ==
    \A p \in Procs : procs[p].pc = "done" /\ procs[p].op \in ReviewOps /\ procs[p].q = q

\* The status the review method op leaves on the request.
StatusOf(op) ==
    IF op = "supervisor_approve" THEN "SUPERVISOR_APPROVED"
    ELSE IF op = "hr_approve" THEN "HR_APPROVED" ELSE "REJECTED"

\* C26: when two reviewers acted on the same request, each having loaded it
\* before the other wrote, the request's status and the attendance side
\* effect come from one transition: every completed supervisor_reject,
\* hr_approve or hr_reject, which saved the attendance row, is the
\* transition whose status the request carries, and a request left REJECTED
\* or HR_APPROVED has its row's flag cleared.
C26_ReviewTransitionsAtomic ==
    \A q \in DOMAIN requests :
        BothReviewed(q) =>
            /\ \A p \in Procs :
                  (procs[p].outcome = "ok" /\ procs[p].op # "supervisor_approve")
                  => requests[q].status = StatusOf(procs[p].op)
            /\ requests[q].status \in {"REJECTED", "HR_APPROVED"}
                  => ~attendance[Linked(q)].has_pending_approval_request

\* C27: when a clock save and the attendance save of a completed
\* supervisor_reject, hr_approve or hr_reject on the same row interleave,
\* the row ends as after the two in sequence: it carries the clock times of
\* the clock save, the hours and the status derived from them, and a
\* cleared flag.
C27_ClockAndReviewSerialize ==
    \A p1, p2 \in Procs :
        (/\ procs[p1].pc = "done" /\ procs[p1].op = "clock"
         /\ procs[p2].pc = "done" /\ procs[p2].op \in ReviewOps \ {"supervisor_approve"}
         /\ procs[p2].outcome = "ok"
         /\ procs[p2].a = procs[p1].a)
        => LET row == attendance[procs[p1].a]
           IN /\ row.clock_in_time = procs[p1].ci
              /\ row.clock_out_time = procs[p1].co
              /\ ~row.has_pending_approval_request
              /\ row = Attendance_save(row)

\* C31: mark_as_present run by a user who is neither superuser nor HR_ADMIN
\* changes no attendance row; run by a superuser or an HR_ADMIN it sets
\* employeeDayStatus to PRESENT on the selected rows and leaves their other
\* fields, the rows not selected and every request as they were.
C31_MarkAsPresentFrame ==
    [][\A u \in Users, S \in SUBSET (1..BulkRecords) :
          mark_as_present(u, S)
          => /\ requests' = requests
             /\ IF ~is_superuser(u) /\ approval_level(u) # "HR_ADMIN"
                THEN attendance' = attendance
                ELSE \A a \in DOMAIN attendance :
                        /\ a \in S => attendance'[a].employeeDayStatus = "PRESENT"
                        /\ a \notin S => attendance'[a].employeeDayStatus
                                             = attendance[a].employeeDayStatus
                        /\ attendance'[a].hours_worked = attendance[a].hours_worked
                        /\ attendance'[a].has_pending_approval_request
                              = attendance[a].has_pending_approval_request
                        /\ attendance'[a].clock_in_time = attendance[a].clock_in_time
                        /\ attendance'[a].clock_out_time = attendance[a].clock_out_time
                        /\ attendance'[a].date = attendance[a].date]_vars

\* A Friday row without clock-in that the bulk action marked PRESENT, with
\* its flag and its request kept, next to a Saturday row it did not select.
C31_Witness ==
    /\ Len(attendance) = BulkRecords
    /\ attendance[1].employeeDayStatus = "PRESENT"
    /\ attendance[1].clock_in_time = Null
    /\ attendance[1].has_pending_approval_request
    /\ attendance[2].employeeDayStatus = "WEEKEND"
    /\ \E q \in DOMAIN requests : Linked(q) = 1 /\ requests[q].status = "PENDING"

\* C32: has_change_permission on a request is true for a superuser and for
\* an HR_ADMIN; for a user of approval_level SUPERVISOR it is true exactly
\* when the user supervises the unit of the request's employee and the
\* request is PENDING; for every other user it is false.  It changes no
\* state.
C32_ChangePermission ==
    [][(/\ returned' # returned
        /\ returned'.op = "has_change_permission"
        /\ returned'.request # NoObj)
       => /\ UNCHANGED data
          /\ LET u == returned'.user
                 q == returned'.request
             IN /\ (is_superuser(u) \/ approval_level(u) = "HR_ADMIN") => returned'.value
                /\ (~is_superuser(u) /\ approval_level(u) = "SUPERVISOR")
                      => (returned'.value
                            <=> /\ unit_supervised[u] # NoUnit
                                /\ unit[requests[q].employee] = unit_supervised[u]
                                /\ requests[q].status = "PENDING")
                /\ (~is_superuser(u) /\ approval_level(u) \notin {"HR_ADMIN", "SUPERVISOR"})
                      => ~returned'.value]_vars

\* The supervisor of the employee's unit asked about a request of that unit
\* which the supervisor has already approved: the answer is no.
C32_Witness ==
    /\ returned.op = "has_change_permission"
    /\ returned.request # NoObj
    /\ approval_level(returned.user) = "SUPERVISOR"
    /\ unit_supervised[returned.user] # NoUnit
    /\ unit[requests[returned.request].employee] = unit_supervised[returned.user]
    /\ requests[returned.request].status = "SUPERVISOR_APPROVED"
    /\ returned.value = FALSE

\* C33: an attendance row linked to an HR_APPROVED request - approved by
\* the unit's supervisor and then by an HR admin - has employeeDayStatus
\* PRESENT, in every reachable state.
C33_HrApprovedRowPresent ==
    \A q \in DOMAIN requests :
        (/\ requests[q].status = "HR_APPROVED"
         /\ requests[q].supervisor_reviewed_by = unit_supervisor
         /\ approval_level(requests[q].hr_reviewed_by) = "HR_ADMIN")
        => attendance[Linked(q)].employeeDayStatus = "PRESENT"

\* Row a has a linked request that is PENDING or SUPERVISOR_APPROVED.
HasOpenRequest(a) ==
    \E q \in DOMAIN requests :
        Linked(q) = a /\ requests[q].status \in {"PENDING", "SUPERVISOR_APPROVED"}

\* C34: a row with a linked request in PENDING or SUPERVISOR_APPROVED is
\* ABSENT and stays so: while the request is open, no save of the row (with
\* a new clock-in, after a change of the employee's status or of the
\* holidays) moves it from ABSENT to another status.
C34_OpenRequestKeepsAbsent ==
    [][\A a \in 1..MaxRecords :
          (/\ IsUpdate(a)
           /\ HasOpenRequest(a)
           /\ attendance[a].employeeDayStatus = "ABSENT")
          => attendance'[a].employeeDayStatus = "ABSENT"]_vars

\* The review timestamps of every request agree with its status.
TrailConsistent ==
    \A q \in DOMAIN requests :
        LET r == requests[q]
        IN /\ r.status = "PENDING"
                => (r.supervisor_reviewed_at = Null /\ r.hr_reviewed_at = Null)
           /\ r.status = "SUPERVISOR_APPROVED"
                => (r.supervisor_reviewed_at # Null /\ r.hr_reviewed_at = Null)
           /\ r.status = "HR_APPROVED"
                => (r.supervisor_reviewed_at # Null /\ r.hr_reviewed_at # Null)
           /\ r.hr_reviewed_at # Null => r.supervisor_reviewed_at # Null

\* A review timestamp that is set is not written again.
WrittenOnce ==
    \A q \in DOMAIN requests :
        /\ requests[q].supervisor_reviewed_at # Null
              => requests'[q].supervisor_reviewed_at = requests[q].supervisor_reviewed_at
        /\ requests[q].hr_reviewed_at # Null
              => requests'[q].hr_reviewed_at = requests[q].hr_reviewed_at

\* C35: in every reachable state a PENDING request has no review timestamp,
\* a SUPERVISOR_APPROVED request has the supervisor's and not HR's, an
\* HR_APPROVED request has both, an HR timestamp never comes without a
\* supervisor timestamp, and each timestamp is written at most once.
C35_ReviewTrailConsistent == []TrailConsistent /\ [][WrittenOnce]_vars

\* C36: after a completed supervisor_reject or hr_reject on a request whose
\* row is ABSENT, with nothing else changed, can_request_approval() is true
\* for the linked row; after a completed hr_approve it is false.
C36_RequestableAfterReview ==
    [][\A c \in ReviewArgs :
          /\ (((supervisor_reject(c[1], c[2], c[3]) /\ SupervisorCall(c))
                  \/ (hr_reject(c[1], c[2], c[3]) /\ HrCall(c)))
               /\ attendance[Linked(c[1])].employeeDayStatus = "ABSENT")
                => can_request_approval(Linked(c[1]))'
          /\ (hr_approve(c[1], c[2], c[3]) /\ HrCall(c))
                => ~can_request_approval(Linked(c[1]))']_vars

\* Row a carries the status the cascade gives to an ACTIVE employee, one of
\* WEEKEND, HOLIDAY, PRESENT and ABSENT.
LikeActive(a) ==
    /\ attendance[a].employeeDayStatus =
           PriorityCascade("ACTIVE", attendance[a].date,
                           IsActiveHoliday(attendance[a].date),
                           attendance[a].clock_in_time, work_start)
    /\ attendance[a].employeeDayStatus \in {"WEEKEND", "HOLIDAY", "PRESENT", "ABSENT"}

\* C37: for an employee whose employee_status is TERMINATED or RESIGNED,
\* Attendance.save() derives the status it derives for an ACTIVE employee:
\* WEEKEND, HOLIDAY, PRESENT or ABSENT by the calendar and the clock-in
\* rule, never SUSPENDED or ON_LEAVE.
C37_DepartedLikeActive ==
    [][(employee_status \in {"TERMINATED", "RESIGNED"})
       => (/\ IsCreate => LikeActive(Len(attendance))'
           /\ \A a \in 1..MaxRecords : (IsUpdate(a) => LikeActive(a)'))]_vars

\* A resigned employee's row of a working day, saved with a clock-in at
\* the deadline after the caller had assigned ABSENT: it is PRESENT.
C37_Witness ==
    /\ employee_status = "RESIGNED"
    /\ \E a \in DOMAIN attendance :
          /\ weekday(attendance[a].date) \notin {5, 6}
          /\ ~IsActiveHoliday(attendance[a].date)
          /\ attendance[a].clock_in_time # Null
          /\ attendance[a].clock_in_time = work_start
          /\ attendance[a].employeeDayStatus = "PRESENT"

====
